---- MODULE Spec2Model ----
(***************************************************************************)
(* rsmemcache: a memcached text-protocol client.                           *)
(*                                                                         *)
(*   Spec      the public API of Client: Client::new and Client::ping,     *)
(*             ping taken step by step (get_conn, write, flush, read,      *)
(*             drop of the connection at the end of the loop body).        *)
(*   PoolSpec  the connection pool primitives of Client (get_conn,         *)
(*             get_free_conn, put_free_conn) driven by several callers.    *)
(***************************************************************************)
EXTENDS Integers, Sequences, FiniteSets, TLC

\* ------------------------------------------------------------------ bounds
MaxConns == 3        \* connections dialed in one run
NumCallers == 2      \* callers of the pool primitives
MaxServers == 2      \* address strings handed to Client::new
MaxPings == 2        \* calls of Client::ping in one run
TickMs == 250        \* granularity of the clock while a read blocks
MaxElapsed == 750    \* the clock stops here
MaxPicks == 3        \* calls of pick_server in one run
MaxOps == 2          \* operations called on the connection in one run

\* ------------------------------------------------------- program constants
DEFAULT_NET_TIMEOUT == 500
DEFAULT_MAX_IDLE_CONNS == 2
KEY_BUFFER_LEN == 256

\* --------------------------------------------------------------- addresses
\* An address string is a sequence of tokens; "h1:11211" is <<"h1", ":", "11211">>.
Hosts == {"h1", "h2"}
Ports == {"11211"}
SocketAddrs == [host : Hosts, port : Ports]

\* SocketAddr::to_string(): host, a colon, the port.
to_string(addr) == <<addr.host, ":", addr.port>>

VARIABLES
    free_conns,     \* Client.free_conns: address string -> Vec of idle connections
    next_conn,      \* number of connections dialed so far (connection ids 1..next_conn)
    closed,         \* connections that were dropped (socket closed)
    held,           \* PoolSpec: caller -> connections it has checked out
    reused,         \* PoolSpec: connections that get_conn handed out from a free list
    pool_res,       \* PoolSpec: outcome of the last pool call
    pc,             \* Spec: where the application is
    servers_arg,    \* Spec: the Vec<String> given to Client::new
    new_result,     \* Spec: what Client::new returned
    selector_addrs, \* Spec: Client.selector.addrs of the client built
    ping_idx,       \* Spec: position of ping's loop in selector.addrs
    cur_conn,       \* Spec: the connection ping's loop body holds (0: none)
    ip_result,      \* Spec: what the last internal_ping returned
    read_buf,       \* Spec: the bytes the last write_read_line read
    elapsed,        \* Spec: milliseconds the current read has been blocked
    ping_result,    \* Spec: what the last ping returned
    ping_failed,    \* Spec: an exchange of the current (or last) ping met an error
    broken,         \* Spec: connections on which an exchange met an error
    dials,          \* Spec: address -> number of TcpStream::connect calls
    all_ok,         \* Spec: every connect and exchange so far succeeded with a whole line
    pings,          \* Spec: calls of ping so far
    sel_addrs,      \* SelSpec: ServerList.addrs
    key_buffer_pool,\* SelSpec: ServerList.key_buffer_pool
    set_result,     \* SelSpec: what the last set_servers returned
    pick_key,       \* SelSpec: the key of the last pick_server
    pick_result,    \* SelSpec: what the last pick_server returned (or that it panicked)
    first_pick,     \* SelSpec: key -> what its first pick_server returned
    picks,          \* SelSpec: calls of pick_server so far
    each_res,       \* EachSpec: the last call of each: f, the list, the calls of f, the result
    op_pc,          \* OpSpec: where the keyed operation in progress is
    op_verb,        \* OpSpec: its verb
    op_key,         \* OpSpec: its key
    op_result,      \* OpSpec: what it returned
    wire,           \* OpSpec: the bytes it has written to the connection
    op_item,        \* OpSpec: the Item handed to a storage operation
    op_value,       \* OpSpec: the payload of what it returned (item, number, message)
    op_reply,       \* OpSpec: the bytes the connection held for it when it read
    conn_in,        \* OpSpec: bytes received on the connection and not read yet
    ops,            \* OpSpec: operations called so far
    store,          \* RtSpec: the server's entries, key -> [value, flags]
    stored          \* RtSpec: key -> [value, flags] the client stored with success

poolVars == <<held, reused, pool_res>>
clientVars == <<pc, servers_arg, new_result, selector_addrs, ping_idx, cur_conn,
                ip_result, read_buf, elapsed, ping_result, ping_failed, broken,
                dials, all_ok, pings>>
selVars == <<sel_addrs, key_buffer_pool, set_result, pick_key, pick_result,
             first_pick, picks, each_res>>
opVars == <<op_pc, op_verb, op_key, op_result, wire, op_item, op_value, op_reply,
            conn_in, ops, store, stored>>
extVars == <<selVars, opVars>>
vars == <<free_conns, next_conn, closed, poolVars, clientVars, extVars>>

Callers == 1..NumCallers
ConnIds == 1..MaxConns

\* The free list of an address string; an absent map entry has no connections.
FreeList(fc, s) == IF s \in DOMAIN fc THEN fc[s] ELSE <<>>

\* ------------------------------------------------------- pool primitives
\* Client::put_free_conn: push onto the address's Vec, creating the entry if absent.
put_free_conn(fc, addr, conn) ==
    LET s == to_string(addr) IN
    IF s \in DOMAIN fc
    THEN [fc EXCEPT ![s] = Append(@, conn)]
    ELSE [k \in DOMAIN fc \cup {s} |-> IF k = s THEN <<conn>> ELSE fc[k]]

\* A get_free_conn that reads the last idle connection without removing it.
get_free_conn_peek(fc, addr) ==
    LET s == to_string(addr) IN
    IF s \in DOMAIN fc /\ Len(fc[s]) > 0
    THEN [some |-> TRUE, conn |-> fc[s][Len(fc[s])], fc |-> fc]
    ELSE [some |-> FALSE, conn |-> 0, fc |-> fc]

\* Client::get_free_conn: Vec::pop on the address's entry, None if absent or empty.
get_free_conn(fc, addr) ==
    LET s == to_string(addr) IN
    IF s \in DOMAIN fc /\ Len(fc[s]) > 0
    THEN [some |-> TRUE, conn |-> fc[s][Len(fc[s])],
          fc |-> [fc EXCEPT ![s] = SubSeq(@, 1, Len(@) - 1)]]
    ELSE [some |-> FALSE, conn |-> 0, fc |-> fc]

\* A get_conn that dials without looking at the free list.
get_conn_dials_first(fc, addr, dial_ok, fresh) ==
    IF dial_ok
    THEN [ok |-> TRUE, conn |-> fresh, fc |-> fc, dialed |-> TRUE, err |-> "none"]
    ELSE [ok |-> FALSE, conn |-> 0, fc |-> fc, dialed |-> TRUE, err |-> "NoServers"]

\* Client::get_conn: a pooled connection if there is one, else TcpStream::connect;
\* a failed connect (or try_clone) is mapped to OperationError::NoServers.
\* dial_ok is the outcome of the connect, fresh the id the new connection gets.
get_conn(fc, addr, dial_ok, fresh) ==
    LET r == get_free_conn(fc, addr) IN
    IF r.some
    THEN [ok |-> TRUE, conn |-> r.conn, fc |-> r.fc, dialed |-> FALSE, err |-> "none"]
    ELSE IF dial_ok
         THEN [ok |-> TRUE, conn |-> fresh, fc |-> r.fc, dialed |-> TRUE, err |-> "none"]
         ELSE [ok |-> FALSE, conn |-> 0, fc |-> r.fc, dialed |-> TRUE,
               err |-> "NoServers"]

\* The client's variables before any client is constructed.
ClientIdle ==
    /\ pc = "start"
    /\ servers_arg = <<>>
    /\ new_result = [ok |-> FALSE, err |-> "none", msg |-> "none"]
    /\ selector_addrs = <<>>
    /\ ping_idx = 0
    /\ cur_conn = 0
    /\ ip_result = "none"
    /\ read_buf = <<>>
    /\ elapsed = 0
    /\ ping_result = "none"
    /\ ping_failed = FALSE
    /\ broken = {}
    /\ dials = [a \in SocketAddrs |-> 0]
    /\ all_ok = TRUE
    /\ pings = 0

\* ServerList::new: no addresses, a zeroed key buffer.
SelIdle ==
    /\ sel_addrs = <<>>
    /\ key_buffer_pool = [i \in 1..KEY_BUFFER_LEN |-> 0]
    /\ set_result = [ok |-> TRUE, err |-> "none", msg |-> "none"]
    /\ pick_key = <<>>
    /\ pick_result = [kind |-> "none"]
    /\ first_pick = <<>>
    /\ picks = 0
    /\ each_res = [called |-> FALSE]

\* The Item of an operation that takes none.
NoItem == [value |-> <<>>, flags |-> 0, expiration |-> 0]

\* The payload of a result that carries none. flags and num hold decimal digits.
NoValue == [some |-> FALSE, key |-> <<>>, value |-> <<>>, flags |-> <<>>,
            num |-> <<>>, msg |-> <<>>]

\* No keyed operation has been called.
OpIdle ==
    /\ op_pc = "idle"
    /\ op_verb = "none"
    /\ op_key = <<>>
    /\ op_result = "none"
    /\ wire = <<>>
    /\ op_item = NoItem
    /\ op_value = NoValue
    /\ op_reply = <<>>
    /\ conn_in = <<>>
    /\ ops = 0
    /\ store = <<>>
    /\ stored = <<>>

\* ----------------------------------------------------------------- PoolSpec
PoolInit ==
    /\ free_conns = <<>>
    /\ next_conn = 0
    /\ closed = {}
    /\ held = [c \in Callers |-> {}]
    /\ reused = {}
    /\ pool_res = [op |-> "none"]
    /\ ClientIdle
    /\ SelIdle
    /\ OpIdle

\* A caller acquires a connection to addr (get_conn).
PoolAcquire(caller, addr, dial_ok) ==
    LET r == get_conn(free_conns, addr, dial_ok, next_conn + 1) IN
    /\ (r.dialed /\ r.ok) => next_conn < MaxConns
    /\ free_conns' = r.fc
    /\ next_conn' = IF r.dialed /\ r.ok THEN next_conn + 1 ELSE next_conn
    /\ held' = IF r.ok THEN [held EXCEPT ![caller] = @ \cup {r.conn}] ELSE held
    /\ reused' = IF r.ok /\ ~r.dialed THEN reused \cup {r.conn} ELSE reused
    /\ pool_res' = [op |-> "get_conn", addr |-> addr, ok |-> r.ok, dialed |-> r.dialed,
                    err |-> r.err]
    /\ UNCHANGED <<closed, clientVars, extVars>>

\* A caller releases a connection it holds (put_free_conn).
PoolRelease(caller, addr, conn) ==
    /\ conn \in held[caller]
    /\ free_conns' = put_free_conn(free_conns, addr, conn)
    /\ held' = [held EXCEPT ![caller] = @ \ {conn}]
    /\ pool_res' = [op |-> "put_free_conn"]
    /\ UNCHANGED <<next_conn, closed, reused, clientVars, extVars>>

\* A caller lets a connection it holds go out of scope: the socket is closed.
PoolDrop(caller, conn) ==
    /\ conn \in held[caller]
    /\ held' = [held EXCEPT ![caller] = @ \ {conn}]
    /\ closed' = closed \cup {conn}
    /\ pool_res' = [op |-> "drop"]
    /\ UNCHANGED <<free_conns, next_conn, reused, clientVars, extVars>>

PoolNext ==
    \/ \E caller \in Callers, addr \in SocketAddrs, dial_ok \in BOOLEAN :
          PoolAcquire(caller, addr, dial_ok)
    \/ \E caller \in Callers, addr \in SocketAddrs, conn \in ConnIds :
          PoolRelease(caller, addr, conn)
    \/ \E caller \in Callers, conn \in ConnIds : PoolDrop(caller, conn)

PoolSpec == PoolInit /\ [][PoolNext]_vars

\* Number of places (free-list slots and callers) that hold connection c.
IdleSlots(c) ==
    {<<s, i>> \in (DOMAIN free_conns) \X (1..(MaxConns + 1)) :
        i <= Len(free_conns[s]) /\ free_conns[s][i] = c}
Holders(c) == {caller \in Callers : c \in held[caller]}

\* C1: the free list of every address holds at most max_idle_cons connections.
C1_MaxIdleBound ==
    \A s \in DOMAIN free_conns : Len(free_conns[s]) <= DEFAULT_MAX_IDLE_CONNS

\* C2: every dialed connection that is still open is idle in exactly one free-list
\* slot or held by exactly one caller, never both; a closed one is in neither.
C2_IdleXorHeld ==
    \A c \in 1..next_conn :
        /\ Cardinality(IdleSlots(c)) + Cardinality(Holders(c))
              = (IF c \in closed THEN 0 ELSE 1)

\* C2 witness: a connection taken back out of a free list is held by one caller while
\* another caller holds another connection and a third connection is idle.
C2_Witness ==
    /\ \E c \in reused : Holders(c) # {}
    /\ \E c1, c2 \in Callers : c1 # c2 /\ held[c1] # {} /\ held[c2] # {}
    /\ \E s \in DOMAIN free_conns : Len(free_conns[s]) > 0

\* ------------------------------------------------------ Client::new, ping
\* The address strings an application may hand to Client::new: two socket addresses,
\* one without a port and one whose host is a name, not an IP literal.
AddrStrings ==
    {<<"h1", ":", "11211">>, <<"h2", ":", "11211">>, <<"h1">>,
     <<"memcache", ":", "11211">>}

\* All sequences over S of length at most n.
SeqsUpTo(S, n) == UNION {[1..k -> S] : k \in 0..n}

\* str::parse::<SocketAddr>(): an IP literal, a colon and a port, nothing else.
ParseAddr(s) ==
    IF Len(s) = 3 /\ s[1] \in Hosts /\ s[2] = ":" /\ s[3] \in Ports
    THEN [ok |-> TRUE, addr |-> [host |-> s[1], port |-> s[3]]]
    ELSE [ok |-> FALSE, addr |-> [host |-> "none", port |-> "none"]]

\* A set_servers that leaves out the strings it cannot parse and reports success.
RECURSIVE set_servers_skip(_, _)
set_servers_skip(addrs, servers) ==
    IF servers = <<>>
    THEN [ok |-> TRUE, addrs |-> addrs, err |-> "none", msg |-> "none"]
    ELSE LET r == ParseAddr(Head(servers)) IN
         set_servers_skip(IF r.ok THEN Append(addrs, r.addr) ELSE addrs, Tail(servers))

\* ServerList::set_servers: parse and push each string in turn; the first string that
\* does not parse ends the call with OperationError::Client, the addresses pushed
\* before it staying in self.addrs.
RECURSIVE set_servers(_, _)
set_servers(addrs, servers) ==
    IF servers = <<>>
    THEN [ok |-> TRUE, addrs |-> addrs, err |-> "none", msg |-> "none"]
    ELSE LET r == ParseAddr(Head(servers)) IN
         IF r.ok
         THEN set_servers(Append(addrs, r.addr), Tail(servers))
         ELSE [ok |-> FALSE, addrs |-> addrs, err |-> "Client",
               msg |-> "invalid server address provided"]

\* The replies a server may send to "version\r\n", as read_until(b'\n') returns them:
\* a whole line, a line cut short by the end of the stream, and nothing at all.
VersionReplies == {<<"VERSION 1.6", "\r", "\n">>, <<"VERSION 1.6">>, <<>>}

\* What ping's loop body does with the connection once internal_ping has returned
\* (lib.rs:122, put_free_conn, is commented out): the free lists are left as they are.
\* A loop body that hands every connection back to the pool.
PingReleaseAlways(fc, addr, conn) == put_free_conn(fc, addr, conn)

PingRelease(fc, addr, conn) == fc

Init == PoolInit

CurAddr == selector_addrs[ping_idx]

\* Client::new: ServerList::new, set_servers(servers)?, new_from_selector.
New(servers) ==
    LET r == set_servers(<<>>, servers) IN
    /\ pc = "start"
    /\ servers_arg' = servers
    /\ new_result' = [ok |-> r.ok, err |-> r.err, msg |-> r.msg]
    /\ selector_addrs' = IF r.ok THEN r.addrs ELSE <<>>
    /\ pc' = IF r.ok THEN "idle" ELSE "noclient"
    /\ UNCHANGED <<free_conns, next_conn, closed, poolVars, extVars, ping_idx, cur_conn,
                   ip_result, read_buf, elapsed, ping_result, ping_failed, broken,
                   dials, all_ok, pings>>

\* The application calls ping: the loop over selector.addrs starts.
PingBegin ==
    /\ pc = "idle"
    /\ pings < MaxPings
    /\ pings' = pings + 1
    /\ ping_idx' = 1
    /\ ping_failed' = FALSE
    /\ ping_result' = "none"
    /\ pc' = "get_conn"
    /\ UNCHANGED <<free_conns, next_conn, closed, poolVars, extVars, servers_arg, new_result,
                   selector_addrs, cur_conn, ip_result, read_buf, elapsed, broken,
                   dials, all_ok>>

\* let conn = self.get_conn(*addr)?;
PingGetConn(dial_ok) ==
    LET r == get_conn(free_conns, CurAddr, dial_ok, next_conn + 1) IN
    /\ pc = "get_conn"
    /\ ping_idx <= Len(selector_addrs)
    /\ free_conns' = r.fc
    /\ next_conn' = IF r.dialed /\ r.ok THEN next_conn + 1 ELSE next_conn
    /\ dials' = IF r.dialed THEN [dials EXCEPT ![CurAddr] = @ + 1] ELSE dials
    /\ cur_conn' = r.conn
    /\ all_ok' = (all_ok /\ r.ok)
    /\ ping_result' = IF r.ok THEN ping_result ELSE r.err
    /\ pc' = IF r.ok THEN "write" ELSE "idle"
    /\ UNCHANGED <<closed, poolVars, extVars, servers_arg, new_result, selector_addrs,
                   ping_idx, ip_result, read_buf, elapsed, ping_failed, broken, pings>>

\* internal_ping has returned r: ping ignores it and goes on to the end of the body.
InternalPingReturns(r, whole_line) ==
    /\ ip_result' = r
    /\ ping_failed' = (ping_failed \/ r # "Ok")
    /\ broken' = IF r # "Ok" THEN broken \cup {cur_conn} ELSE broken
    /\ all_ok' = (all_ok /\ r = "Ok" /\ whole_line)
    /\ pc' = "drop"

\* write_read_line: self.writer.write_all(write_buf).map_err(Write)?
WriteAll(ok) ==
    /\ pc = "write"
    /\ IF ok
       THEN /\ pc' = "flush"
            /\ UNCHANGED <<ip_result, ping_failed, broken, all_ok>>
       ELSE InternalPingReturns("Io(Write)", FALSE)
    /\ UNCHANGED <<free_conns, next_conn, closed, poolVars, extVars, servers_arg, new_result,
                   selector_addrs, ping_idx, cur_conn, read_buf, elapsed, ping_result,
                   dials, pings>>

\* write_read_line: self.writer.flush().map_err(Flush)?
Flush(ok) ==
    /\ pc = "flush"
    /\ IF ok
       THEN /\ pc' = "read"
            /\ UNCHANGED <<ip_result, ping_failed, broken, all_ok>>
       ELSE InternalPingReturns("Io(Flush)", FALSE)
    /\ elapsed' = 0
    /\ UNCHANGED <<free_conns, next_conn, closed, poolVars, extVars, servers_arg, new_result,
                   selector_addrs, ping_idx, cur_conn, read_buf, ping_result,
                   dials, pings>>

\* Time passes while read_until waits for the server: no read timeout is ever set on
\* the socket (Client.timeout is stored and not used), so nothing else happens.
Tick ==
    /\ pc = "read"
    /\ elapsed < MaxElapsed
    /\ elapsed' = elapsed + TickMs
    /\ UNCHANGED <<free_conns, next_conn, closed, poolVars, extVars, pc, servers_arg,
                   new_result, selector_addrs, ping_idx, cur_conn, ip_result,
                   read_buf, ping_result, ping_failed, broken, dials, all_ok, pings>>

\* write_read_line: self.reader.read_until(b'\n', &mut read_buf) fails with an error.
ReadError ==
    /\ pc = "read"
    /\ InternalPingReturns("Io(Read)", FALSE)
    /\ read_buf' = <<>>
    /\ UNCHANGED <<free_conns, next_conn, closed, poolVars, extVars, servers_arg, new_result,
                   selector_addrs, ping_idx, cur_conn, elapsed, ping_result,
                   dials, pings>>

\* write_read_line: read_until returns Ok with what it read up to the newline or the
\* end of the stream; Ok(read_buf) whatever it holds, and internal_ping returns Ok.
ReadLine(reply) ==
    /\ pc = "read"
    /\ InternalPingReturns("Ok", Len(reply) > 0 /\ reply[Len(reply)] = "\n")
    /\ read_buf' = reply
    /\ UNCHANGED <<free_conns, next_conn, closed, poolVars, extVars, servers_arg, new_result,
                   selector_addrs, ping_idx, cur_conn, elapsed, ping_result,
                   dials, pings>>

\* The end of the loop body: conn goes out of scope and the loop moves on.
PingDrop ==
    LET fc == PingRelease(free_conns, CurAddr, cur_conn) IN
    /\ pc = "drop"
    /\ free_conns' = fc
    /\ closed' = IF fc = free_conns THEN closed \cup {cur_conn} ELSE closed
    /\ cur_conn' = 0
    /\ ping_idx' = ping_idx + 1
    /\ elapsed' = 0
    /\ pc' = "get_conn"
    /\ UNCHANGED <<next_conn, poolVars, extVars, servers_arg, new_result, selector_addrs,
                   ip_result, read_buf, ping_result, ping_failed, broken, dials,
                   all_ok, pings>>

\* The loop is over: Ok(()).
PingReturn ==
    /\ pc = "get_conn"
    /\ ping_idx > Len(selector_addrs)
    /\ ping_result' = "Ok"
    /\ pc' = "idle"
    /\ UNCHANGED <<free_conns, next_conn, closed, poolVars, extVars, servers_arg, new_result,
                   selector_addrs, ping_idx, cur_conn, ip_result, read_buf, elapsed,
                   ping_failed, broken, dials, all_ok, pings>>

Next ==
    \/ \E servers \in SeqsUpTo(AddrStrings, MaxServers) : New(servers)
    \/ PingBegin
    \/ \E dial_ok \in BOOLEAN : PingGetConn(dial_ok)
    \/ \E ok \in BOOLEAN : WriteAll(ok)
    \/ \E ok \in BOOLEAN : Flush(ok)
    \/ Tick
    \/ ReadError
    \/ \E reply \in VersionReplies : ReadLine(reply)
    \/ PingDrop
    \/ PingReturn

Spec == Init /\ [][Next]_vars

\* C3: no connection on which an exchange met an error is in a free list, and the
\* connection an acquire has just returned is not such a connection.
C3_BrokenNeverPooled ==
    /\ \A s \in DOMAIN free_conns :
          \A i \in 1..Len(free_conns[s]) : free_conns[s][i] \notin broken
    /\ pc = "write" => cur_conn \notin broken

\* C3 witness: a connection met an error, was let go, and a later acquire has returned.
C3_Witness ==
    /\ pc = "write"
    /\ \E c \in broken : c \in closed /\ c # cur_conn

\* C4: as long as no connect and no exchange has failed, every server has been dialed
\* at most once: the connection of a successful exchange is pooled and used again.
C4_SuccessfulConnReused ==
    all_ok => \A a \in SocketAddrs : dials[a] <= 1

\* C5: a ping that returned Ok met no write, flush or read error on any server.
C5_PingOkOnlyIfAllExchangesOk ==
    (pc = "idle" /\ ping_result = "Ok") => ~ping_failed

\* C6: a read never stays blocked past the configured deadline.
C6_ReadWithinDeadline ==
    pc = "read" => elapsed <= DEFAULT_NET_TIMEOUT

RECURSIVE XorBits(_, _, _)
XorBits(a, b, n) ==
    IF n = 0 THEN 0
    ELSE ((a + b) % 2) + 2 * XorBits(a \div 2, b \div 2, n - 1)

\* XOR of two nibbles, tabulated: entry [a + 1][b + 1] is a XOR b.
XorNibbleTable ==
  <<
    <<0, 1, 2, 3, 4, 5, 6, 7, 8, 9, 10, 11, 12, 13, 14, 15>>,
    <<1, 0, 3, 2, 5, 4, 7, 6, 9, 8, 11, 10, 13, 12, 15, 14>>,
    <<2, 3, 0, 1, 6, 7, 4, 5, 10, 11, 8, 9, 14, 15, 12, 13>>,
    <<3, 2, 1, 0, 7, 6, 5, 4, 11, 10, 9, 8, 15, 14, 13, 12>>,
    <<4, 5, 6, 7, 0, 1, 2, 3, 12, 13, 14, 15, 8, 9, 10, 11>>,
    <<5, 4, 7, 6, 1, 0, 3, 2, 13, 12, 15, 14, 9, 8, 11, 10>>,
    <<6, 7, 4, 5, 2, 3, 0, 1, 14, 15, 12, 13, 10, 11, 8, 9>>,
    <<7, 6, 5, 4, 3, 2, 1, 0, 15, 14, 13, 12, 11, 10, 9, 8>>,
    <<8, 9, 10, 11, 12, 13, 14, 15, 0, 1, 2, 3, 4, 5, 6, 7>>,
    <<9, 8, 11, 10, 13, 12, 15, 14, 1, 0, 3, 2, 5, 4, 7, 6>>,
    <<10, 11, 8, 9, 14, 15, 12, 13, 2, 3, 0, 1, 6, 7, 4, 5>>,
    <<11, 10, 9, 8, 15, 14, 13, 12, 3, 2, 1, 0, 7, 6, 5, 4>>,
    <<12, 13, 14, 15, 8, 9, 10, 11, 4, 5, 6, 7, 0, 1, 2, 3>>,
    <<13, 12, 15, 14, 9, 8, 11, 10, 5, 4, 7, 6, 1, 0, 3, 2>>,
    <<14, 15, 12, 13, 10, 11, 8, 9, 6, 7, 4, 5, 2, 3, 0, 1>>,
    <<15, 14, 13, 12, 11, 10, 9, 8, 7, 6, 5, 4, 3, 2, 1, 0>>
  >>

XorByte(a, b) ==
    16 * XorNibbleTable[(a \div 16) + 1][(b \div 16) + 1]
       + XorNibbleTable[(a % 16) + 1][(b % 16) + 1]

XorWord(x, y) ==
    <<XorByte(x[1], y[1]), XorByte(x[2], y[2]), XorByte(x[3], y[3]), XorByte(x[4], y[4])>>

ShrWord1(w) ==
    <<(w[1] \div 2) + 128 * (w[2] % 2), (w[2] \div 2) + 128 * (w[3] % 2),
      (w[3] \div 2) + 128 * (w[4] % 2), w[4] \div 2>>

ShrWord8(w) == <<w[2], w[3], w[4], 0>>

\* The reflected CRC-32 (IEEE) polynomial 0xEDB88320.
CrcPoly == <<32, 131, 184, 237>>

\* Entry n of the CRC-32 table: n shifted out bit by bit, k bits to go.
RECURSIVE CrcTableEntry(_, _)
CrcTableEntry(w, k) ==
    IF k = 0 THEN w
    ELSE CrcTableEntry(IF w[1] % 2 = 1 THEN XorWord(CrcPoly, ShrWord1(w))
                                       ELSE ShrWord1(w), k - 1)

\* The CRC-32 table, tabulated: entry [n + 1] is CrcTableEntry(<<n, 0, 0, 0>>, 8).
CrcTable ==
  <<
    <<0, 0, 0, 0>>, <<150, 48, 7, 119>>, <<44, 97, 14, 238>>, <<186, 81, 9, 153>>,
    <<25, 196, 109, 7>>, <<143, 244, 106, 112>>, <<53, 165, 99, 233>>, <<163, 149, 100, 158>>,
    <<50, 136, 219, 14>>, <<164, 184, 220, 121>>, <<30, 233, 213, 224>>, <<136, 217, 210, 151>>,
    <<43, 76, 182, 9>>, <<189, 124, 177, 126>>, <<7, 45, 184, 231>>, <<145, 29, 191, 144>>,
    <<100, 16, 183, 29>>, <<242, 32, 176, 106>>, <<72, 113, 185, 243>>, <<222, 65, 190, 132>>,
    <<125, 212, 218, 26>>, <<235, 228, 221, 109>>, <<81, 181, 212, 244>>, <<199, 133, 211, 131>>,
    <<86, 152, 108, 19>>, <<192, 168, 107, 100>>, <<122, 249, 98, 253>>, <<236, 201, 101, 138>>,
    <<79, 92, 1, 20>>, <<217, 108, 6, 99>>, <<99, 61, 15, 250>>, <<245, 13, 8, 141>>,
    <<200, 32, 110, 59>>, <<94, 16, 105, 76>>, <<228, 65, 96, 213>>, <<114, 113, 103, 162>>,
    <<209, 228, 3, 60>>, <<71, 212, 4, 75>>, <<253, 133, 13, 210>>, <<107, 181, 10, 165>>,
    <<250, 168, 181, 53>>, <<108, 152, 178, 66>>, <<214, 201, 187, 219>>, <<64, 249, 188, 172>>,
    <<227, 108, 216, 50>>, <<117, 92, 223, 69>>, <<207, 13, 214, 220>>, <<89, 61, 209, 171>>,
    <<172, 48, 217, 38>>, <<58, 0, 222, 81>>, <<128, 81, 215, 200>>, <<22, 97, 208, 191>>,
    <<181, 244, 180, 33>>, <<35, 196, 179, 86>>, <<153, 149, 186, 207>>, <<15, 165, 189, 184>>,
    <<158, 184, 2, 40>>, <<8, 136, 5, 95>>, <<178, 217, 12, 198>>, <<36, 233, 11, 177>>,
    <<135, 124, 111, 47>>, <<17, 76, 104, 88>>, <<171, 29, 97, 193>>, <<61, 45, 102, 182>>,
    <<144, 65, 220, 118>>, <<6, 113, 219, 1>>, <<188, 32, 210, 152>>, <<42, 16, 213, 239>>,
    <<137, 133, 177, 113>>, <<31, 181, 182, 6>>, <<165, 228, 191, 159>>, <<51, 212, 184, 232>>,
    <<162, 201, 7, 120>>, <<52, 249, 0, 15>>, <<142, 168, 9, 150>>, <<24, 152, 14, 225>>,
    <<187, 13, 106, 127>>, <<45, 61, 109, 8>>, <<151, 108, 100, 145>>, <<1, 92, 99, 230>>,
    <<244, 81, 107, 107>>, <<98, 97, 108, 28>>, <<216, 48, 101, 133>>, <<78, 0, 98, 242>>,
    <<237, 149, 6, 108>>, <<123, 165, 1, 27>>, <<193, 244, 8, 130>>, <<87, 196, 15, 245>>,
    <<198, 217, 176, 101>>, <<80, 233, 183, 18>>, <<234, 184, 190, 139>>, <<124, 136, 185, 252>>,
    <<223, 29, 221, 98>>, <<73, 45, 218, 21>>, <<243, 124, 211, 140>>, <<101, 76, 212, 251>>,
    <<88, 97, 178, 77>>, <<206, 81, 181, 58>>, <<116, 0, 188, 163>>, <<226, 48, 187, 212>>,
    <<65, 165, 223, 74>>, <<215, 149, 216, 61>>, <<109, 196, 209, 164>>, <<251, 244, 214, 211>>,
    <<106, 233, 105, 67>>, <<252, 217, 110, 52>>, <<70, 136, 103, 173>>, <<208, 184, 96, 218>>,
    <<115, 45, 4, 68>>, <<229, 29, 3, 51>>, <<95, 76, 10, 170>>, <<201, 124, 13, 221>>,
    <<60, 113, 5, 80>>, <<170, 65, 2, 39>>, <<16, 16, 11, 190>>, <<134, 32, 12, 201>>,
    <<37, 181, 104, 87>>, <<179, 133, 111, 32>>, <<9, 212, 102, 185>>, <<159, 228, 97, 206>>,
    <<14, 249, 222, 94>>, <<152, 201, 217, 41>>, <<34, 152, 208, 176>>, <<180, 168, 215, 199>>,
    <<23, 61, 179, 89>>, <<129, 13, 180, 46>>, <<59, 92, 189, 183>>, <<173, 108, 186, 192>>,
    <<32, 131, 184, 237>>, <<182, 179, 191, 154>>, <<12, 226, 182, 3>>, <<154, 210, 177, 116>>,
    <<57, 71, 213, 234>>, <<175, 119, 210, 157>>, <<21, 38, 219, 4>>, <<131, 22, 220, 115>>,
    <<18, 11, 99, 227>>, <<132, 59, 100, 148>>, <<62, 106, 109, 13>>, <<168, 90, 106, 122>>,
    <<11, 207, 14, 228>>, <<157, 255, 9, 147>>, <<39, 174, 0, 10>>, <<177, 158, 7, 125>>,
    <<68, 147, 15, 240>>, <<210, 163, 8, 135>>, <<104, 242, 1, 30>>, <<254, 194, 6, 105>>,
    <<93, 87, 98, 247>>, <<203, 103, 101, 128>>, <<113, 54, 108, 25>>, <<231, 6, 107, 110>>,
    <<118, 27, 212, 254>>, <<224, 43, 211, 137>>, <<90, 122, 218, 16>>, <<204, 74, 221, 103>>,
    <<111, 223, 185, 249>>, <<249, 239, 190, 142>>, <<67, 190, 183, 23>>, <<213, 142, 176, 96>>,
    <<232, 163, 214, 214>>, <<126, 147, 209, 161>>, <<196, 194, 216, 56>>, <<82, 242, 223, 79>>,
    <<241, 103, 187, 209>>, <<103, 87, 188, 166>>, <<221, 6, 181, 63>>, <<75, 54, 178, 72>>,
    <<218, 43, 13, 216>>, <<76, 27, 10, 175>>, <<246, 74, 3, 54>>, <<96, 122, 4, 65>>,
    <<195, 239, 96, 223>>, <<85, 223, 103, 168>>, <<239, 142, 110, 49>>, <<121, 190, 105, 70>>,
    <<140, 179, 97, 203>>, <<26, 131, 102, 188>>, <<160, 210, 111, 37>>, <<54, 226, 104, 82>>,
    <<149, 119, 12, 204>>, <<3, 71, 11, 187>>, <<185, 22, 2, 34>>, <<47, 38, 5, 85>>,
    <<190, 59, 186, 197>>, <<40, 11, 189, 178>>, <<146, 90, 180, 43>>, <<4, 106, 179, 92>>,
    <<167, 255, 215, 194>>, <<49, 207, 208, 181>>, <<139, 158, 217, 44>>, <<29, 174, 222, 91>>,
    <<176, 194, 100, 155>>, <<38, 242, 99, 236>>, <<156, 163, 106, 117>>, <<10, 147, 109, 2>>,
    <<169, 6, 9, 156>>, <<63, 54, 14, 235>>, <<133, 103, 7, 114>>, <<19, 87, 0, 5>>,
    <<130, 74, 191, 149>>, <<20, 122, 184, 226>>, <<174, 43, 177, 123>>, <<56, 27, 182, 12>>,
    <<155, 142, 210, 146>>, <<13, 190, 213, 229>>, <<183, 239, 220, 124>>, <<33, 223, 219, 11>>,
    <<212, 210, 211, 134>>, <<66, 226, 212, 241>>, <<248, 179, 221, 104>>, <<110, 131, 218, 31>>,
    <<205, 22, 190, 129>>, <<91, 38, 185, 246>>, <<225, 119, 176, 111>>, <<119, 71, 183, 24>>,
    <<230, 90, 8, 136>>, <<112, 106, 15, 255>>, <<202, 59, 6, 102>>, <<92, 11, 1, 17>>,
    <<255, 158, 101, 143>>, <<105, 174, 98, 248>>, <<211, 255, 107, 97>>, <<69, 207, 108, 22>>,
    <<120, 226, 10, 160>>, <<238, 210, 13, 215>>, <<84, 131, 4, 78>>, <<194, 179, 3, 57>>,
    <<97, 38, 103, 167>>, <<247, 22, 96, 208>>, <<77, 71, 105, 73>>, <<219, 119, 110, 62>>,
    <<74, 106, 209, 174>>, <<220, 90, 214, 217>>, <<102, 11, 223, 64>>, <<240, 59, 216, 55>>,
    <<83, 174, 188, 169>>, <<197, 158, 187, 222>>, <<127, 207, 178, 71>>, <<233, 255, 181, 48>>,
    <<28, 242, 189, 189>>, <<138, 194, 186, 202>>, <<48, 147, 179, 83>>, <<166, 163, 180, 36>>,
    <<5, 54, 208, 186>>, <<147, 6, 215, 205>>, <<41, 87, 222, 84>>, <<191, 103, 217, 35>>,
    <<46, 122, 102, 179>>, <<184, 74, 97, 196>>, <<2, 27, 104, 93>>, <<148, 43, 111, 42>>,
    <<55, 190, 11, 180>>, <<161, 142, 12, 195>>, <<27, 223, 5, 90>>, <<141, 239, 2, 45>>
  >>

\* The two tables hold what their definitions say.
TablesOk ==
    /\ \A a, b \in 0..15 : XorNibbleTable[a + 1][b + 1] = XorBits(a, b, 4)
    /\ \A n \in 0..255 : CrcTable[n + 1] = CrcTableEntry(<<n, 0, 0, 0>>, 8)

CrcStep(crc, b) == XorWord(CrcTable[XorByte(crc[1], b) + 1], ShrWord8(crc))

\* The bytes lo..hi folded into crc from left to right (the left half is evaluated
\* before the right half starts, which keeps the evaluation shallow).
RECURSIVE CrcUpdate(_, _, _, _)
CrcUpdate(crc, bytes, lo, hi) ==
    IF lo > hi THEN crc
    ELSE IF lo = hi THEN CrcStep(crc, bytes[lo])
    ELSE LET mid == (lo + hi) \div 2
             left == CrcUpdate(crc, bytes, lo, mid)
         IN  IF Len(left) = 4 THEN CrcUpdate(left, bytes, mid + 1, hi) ELSE left

\* crc32fast::hash: CRC-32 of the bytes, initial value and final XOR 0xFFFFFFFF.
crc32(bytes) ==
    XorWord(CrcUpdate(<<255, 255, 255, 255>>, bytes, 1, Len(bytes)),
            <<255, 255, 255, 255>>)

\* checksum % n for the u32 checksum w, from the highest byte down.
RECURSIVE WordModFrom(_, _, _)
WordModFrom(w, n, i) ==
    IF i > 4 THEN 0 ELSE (WordModFrom(w, n, i + 1) * 256 + w[i]) % n

WordMod(w, n) == WordModFrom(w, n, 1)

\* A key of n bytes, all 'a'.
KeyOfLen(n) == [i \in 1..n |-> 97]

\* The keys handed to pick_server: "a", "b", "ab", and keys of 256 and 257 bytes
\* (longer than a legal key: as long as the key buffer, and longer than it).
SelKeys == {<<97>>, <<98>>, <<97, 98>>, KeyOfLen(256), KeyOfLen(257)}

NoAddr == [host |-> "none", port |-> "none"]

\* self.key_buffer_pool[..key.len()].copy_from_slice(key.as_bytes())
CopyKey(buf, key) == [i \in 1..Len(buf) |-> IF i <= Len(key) THEN key[i] ELSE buf[i]]

\* A pick_server that hashes the whole key buffer, not its first key.len() bytes.
pick_server_whole_buffer(addrs, buf, key) ==
    IF Len(addrs) = 0
    THEN [kind |-> "err", addr |-> NoAddr, err |-> "Client",
          msg |-> "no servers configured or available", buf |-> buf]
    ELSE IF Len(addrs) = 1
    THEN [kind |-> "ok", addr |-> addrs[1], err |-> "none", msg |-> "none", buf |-> buf]
    ELSE IF Len(key) > Len(buf)
    THEN [kind |-> "panic", addr |-> NoAddr, err |-> "none", msg |-> "none", buf |-> buf]
    ELSE LET nbuf == CopyKey(buf, key)
             checksum == crc32(nbuf)
         IN  [kind |-> "ok", addr |-> addrs[WordMod(checksum, Len(addrs)) + 1],
              err |-> "none", msg |-> "none", buf |-> nbuf]

\* A pick_server that takes no server for a list of one address.
pick_server_one_is_none(addrs, buf, key) ==
    IF Len(addrs) <= 1
    THEN [kind |-> "err", addr |-> NoAddr, err |-> "Client",
          msg |-> "no servers configured or available", buf |-> buf]
    ELSE pick_server_whole_buffer(addrs, buf, key)

\* ServerList::pick_server. No address: Err(Client). One: that address. More: the key
\* is copied to the front of key_buffer_pool (the slice index panics when the key is
\* longer than the buffer), the first key.len() bytes of the buffer are hashed, and the
\* address at checksum % len is returned.
pick_server(addrs, buf, key) ==
    IF Len(addrs) = 0
    THEN [kind |-> "err", addr |-> NoAddr, err |-> "Client",
          msg |-> "no servers configured or available", buf |-> buf]
    ELSE IF Len(addrs) = 1
    THEN [kind |-> "ok", addr |-> addrs[1], err |-> "none", msg |-> "none", buf |-> buf]
    ELSE IF Len(key) > Len(buf)
    THEN [kind |-> "panic", addr |-> NoAddr, err |-> "none", msg |-> "none", buf |-> buf]
    ELSE LET nbuf == CopyKey(buf, key)
             checksum == crc32(SubSeq(nbuf, 1, Len(key)))
         IN  [kind |-> "ok", addr |-> addrs[WordMod(checksum, Len(addrs)) + 1],
              err |-> "none", msg |-> "none", buf |-> nbuf]

SelInit ==
    /\ PoolInit
    /\ TablesOk

\* The application sets the servers of the list (before it picks any).
SelSetServers(servers) ==
    LET r == set_servers(sel_addrs, servers) IN
    /\ picks = 0
    /\ Len(sel_addrs) + Len(servers) <= MaxServers + 1
    /\ sel_addrs' = r.addrs
    /\ set_result' = [ok |-> r.ok, err |-> r.err, msg |-> r.msg]
    /\ UNCHANGED <<free_conns, next_conn, closed, poolVars, clientVars, opVars,
                   key_buffer_pool, pick_key, pick_result, first_pick, picks, each_res>>

\* The application picks the server of a key; a panic ends the program.
SelPick(key) ==
    LET r == pick_server(sel_addrs, key_buffer_pool, key) IN
    /\ picks < MaxPicks
    /\ pick_result.kind # "panic"
    /\ picks' = picks + 1
    /\ pick_key' = key
    /\ pick_result' = [kind |-> r.kind, addr |-> r.addr, err |-> r.err, msg |-> r.msg]
    /\ key_buffer_pool' = r.buf
    /\ first_pick' = IF key \in DOMAIN first_pick THEN first_pick
                     ELSE [k \in DOMAIN first_pick \cup {key} |->
                              IF k = key THEN pick_result' ELSE first_pick[k]]
    /\ UNCHANGED <<free_conns, next_conn, closed, poolVars, clientVars, opVars,
                   sel_addrs, set_result, each_res>>

SelNext ==
    \/ \E servers \in SeqsUpTo(AddrStrings, MaxServers) : SelSetServers(servers)
    \/ \E key \in SelKeys : SelPick(key)

SelSpec == SelInit /\ [][SelNext]_vars

\* ------------------------------------------------------------ ServerList::each
\* What f may return for an address: Ok(()) or one of two errors.
EachOutcomes == {"Ok", "ErrA", "ErrB"}

\* An each that goes on after an error and returns the first error at the end.
RECURSIVE each_keeps_going(_, _)
each_keeps_going(addrs, f) ==
    IF addrs = <<>>
    THEN [result |-> "Ok", calls |-> <<>>]
    ELSE LET r == each_keeps_going(Tail(addrs), f)
         IN  [result |-> IF f[Head(addrs)] # "Ok" THEN f[Head(addrs)] ELSE r.result,
              calls |-> <<Head(addrs)>> \o r.calls]

\* ServerList::each: `for addr in self.addrs.iter() { f(*addr)?; } Ok(())`. calls is
\* the sequence of addresses f was called on.
RECURSIVE each(_, _)
each(addrs, f) ==
    IF addrs = <<>>
    THEN [result |-> "Ok", calls |-> <<>>]
    ELSE IF f[Head(addrs)] # "Ok"
    THEN [result |-> f[Head(addrs)], calls |-> <<Head(addrs)>>]
    ELSE LET r == each(Tail(addrs), f)
         IN  [result |-> r.result, calls |-> <<Head(addrs)>> \o r.calls]

\* The application calls each with a function f.
SelEach(f) ==
    /\ each_res' = [called |-> TRUE, f |-> f, addrs |-> sel_addrs,
                    result |-> each(sel_addrs, f).result,
                    calls |-> each(sel_addrs, f).calls]
    /\ UNCHANGED <<free_conns, next_conn, closed, poolVars, clientVars, opVars,
                   sel_addrs, key_buffer_pool, set_result, pick_key, pick_result,
                   first_pick, picks>>

EachInit == PoolInit

EachNext ==
    \/ \E servers \in SeqsUpTo(AddrStrings, MaxServers) : SelSetServers(servers)
    \/ \E f \in [SocketAddrs -> EachOutcomes] : SelEach(f)

EachSpec == EachInit /\ [][EachNext]_vars

\* C7: with more than one server, a pick that returns an address returns the one at
\* index CRC-32(key) mod N of the list, which is also what the first pick of that key
\* returned, whatever was picked in between.
C7_PickIsCrcModN ==
    (picks > 0 /\ Len(sel_addrs) > 1 /\ pick_result.kind = "ok")
       => /\ pick_result.addr = sel_addrs[WordMod(crc32(pick_key), Len(sel_addrs)) + 1]
          /\ pick_result = first_pick[pick_key]

\* C7 witness: a key is picked a second time with a longer key picked in between, the
\* bytes of the longer key still in the buffer behind it, in a list of two different
\* servers where the key and the key followed by those bytes choose differently.
C7_Witness ==
    /\ picks = 3
    /\ Len(sel_addrs) = 2
    /\ sel_addrs[1] # sel_addrs[2]
    /\ pick_result.kind = "ok"
    /\ Len(pick_key) = 1
    /\ key_buffer_pool[2] # 0
    /\ pick_key \in DOMAIN first_pick
    /\ WordMod(crc32(pick_key), 2) # WordMod(crc32(SubSeq(key_buffer_pool, 1, 2)), 2)

\* C8: with exactly one server, every pick returns that server, whatever the key.
C8_SingleServerAlwaysPicked ==
    (picks > 0 /\ Len(sel_addrs) = 1)
       => /\ pick_result.kind = "ok"
          /\ pick_result.addr = sel_addrs[1]

\* C8 witness: one server, and keys of different contents and lengths (one of them
\* longer than the key buffer) have been picked.
C8_Witness ==
    /\ Len(sel_addrs) = 1
    /\ picks = 3
    /\ Len(pick_key) > KEY_BUFFER_LEN
    /\ Cardinality(DOMAIN first_pick) = 3

\* ------------------------------------------------------- keyed operations
\* The keyed operations of the client (lib.rs:136-361): get, the storage verbs through
\* populate_one, increment and decrement through incr_decr, delete through
\* write_expectf. This part follows an operation up to the flush of its command; the
\* decoding of the reply is not part of it.

\* The verbs, as the bytes of VERB_GET .. VERB_DECR.
VerbBytes(verb) ==
    CASE verb = "get" -> <<103, 101, 116>>
      [] verb = "set" -> <<115, 101, 116>>
      [] verb = "add" -> <<97, 100, 100>>
      [] verb = "replace" -> <<114, 101, 112, 108, 97, 99, 101>>
      [] verb = "append" -> <<97, 112, 112, 101, 110, 100>>
      [] verb = "prepend" -> <<112, 114, 101, 112, 101, 110, 100>>
      [] verb = "delete" -> <<100, 101, 108, 101, 116, 101>>
      [] verb = "incr" -> <<105, 110, 99, 114>>
      [] verb = "decr" -> <<100, 101, 99, 114>>
      [] verb = "flush_all" -> <<102, 108, 117, 115, 104, 95, 97, 108, 108>>

StorageVerbs == {"set", "add", "replace", "append", "prepend"}
CounterVerbs == {"incr", "decr"}
KeyedVerbs == {"get", "delete"} \cup StorageVerbs \cup CounterVerbs
OpVerbs == KeyedVerbs \cup {"flush_all"}

\* The operations whose code calls legal_key before it writes: get (lib.rs:137) and
\* populate_one (lib.rs:275). incr_decr and delete hand the key straight to
\* write_read_line.
VerbsCheckingKey == {"get"} \cup StorageVerbs

\* CR_LF and the space of the command lines.
CR_LF == <<13, 10>>
SP == <<32>>

\* The keys handed to the operations: "a", a key of 250 bytes, a key of 251 bytes,
\* "a b" (a space inside) and "a\nb" (a control byte inside).
OpKeys == {<<97>>, KeyOfLen(250), KeyOfLen(251), <<97, 32, 98>>, <<97, 10, 98>>}

\* The items stored: {value "red", flags 32, expiration 5} and {"26", 0, 15}.
OpItems ==
    {[value |-> <<114, 101, 100>>, flags |-> 32, expiration |-> 5],
     [value |-> <<50, 54>>, flags |-> 0, expiration |-> 15]}

OpDeltas == {10}

\* Display of an unsigned number: its decimal digits.
RECURSIVE ToDecimal(_)
ToDecimal(n) ==
    IF n < 10 THEN <<48 + n>> ELSE ToDecimal(n \div 10) \o <<48 + (n % 10)>>

\* legal_key: false for a key longer than 250 bytes, true for every other key.
legal_key(key) ==
    IF Len(key) > 250 THEN FALSE ELSE TRUE

\* The bytes an operation writes before it flushes.
Command(verb, key, item, delta) ==
    IF verb \in StorageVerbs
    THEN VerbBytes(verb) \o SP \o key \o SP \o ToDecimal(item.flags) \o SP
            \o ToDecimal(item.expiration) \o SP \o ToDecimal(Len(item.value)) \o CR_LF
            \o item.value \o CR_LF
    ELSE IF verb \in CounterVerbs
    THEN VerbBytes(verb) \o SP \o key \o SP \o ToDecimal(delta) \o CR_LF
    ELSE IF verb = "flush_all"
    THEN VerbBytes(verb) \o CR_LF
    ELSE VerbBytes(verb) \o SP \o key \o CR_LF

\* ----------------------------------------------------------- reply decoding
\* The result lines of the protocol.
RESULT_OK == <<79, 75, 13, 10>>
RESULT_STORED == <<83, 84, 79, 82, 69, 68, 13, 10>>
RESULT_NOT_STORED == <<78, 79, 84, 95, 83, 84, 79, 82, 69, 68, 13, 10>>
RESULT_EXISTS == <<69, 88, 73, 83, 84, 83, 13, 10>>
RESULT_NOT_FOUND == <<78, 79, 84, 95, 70, 79, 85, 78, 68, 13, 10>>
RESULT_DELETED == <<68, 69, 76, 69, 84, 69, 68, 13, 10>>
RESULT_END == <<69, 78, 68, 13, 10>>
RESULT_CLIENT_ERROR_PREFIX == <<67, 76, 73, 69, 78, 84, 95, 69, 82, 82, 79, 82, 32>>

\* slice.ends_with / slice.starts_with.
ends_with(s, suffix) ==
    /\ Len(s) >= Len(suffix)
    /\ SubSeq(s, Len(s) - Len(suffix) + 1, Len(s)) = suffix

starts_with(s, prefix) ==
    /\ Len(s) >= Len(prefix)
    /\ SubSeq(s, 1, Len(prefix)) = prefix

\* Position of the first byte b of s, 0 when s holds none.
FirstIndex(s, b) ==
    IF \E i \in 1..Len(s) : s[i] = b
    THEN CHOOSE i \in 1..Len(s) : s[i] = b /\ \A j \in 1..(i - 1) : s[j] # b
    ELSE 0

\* BufRead::read_until(b'\n', ..): the bytes through the first line feed, or all the
\* bytes left when the stream ends before one; rest is what stays unread.
read_until(input) ==
    LET i == FirstIndex(input, 10)
    IN  IF i = 0
        THEN [line |-> input, rest |-> <<>>]
        ELSE [line |-> SubSeq(input, 1, i), rest |-> SubSeq(input, i + 1, Len(input))]

\* slice.split(|&x| x == b' '): the pieces between the spaces; one empty piece for an
\* empty slice.
RECURSIVE split(_)
split(s) ==
    LET i == FirstIndex(s, 32)
    IN  IF i = 0
        THEN <<s>>
        ELSE <<SubSeq(s, 1, i - 1)>> \o split(SubSeq(s, i + 1, Len(s)))

\* String::from_utf8 succeeds. The replies of the model hold ASCII bytes and the byte
\* 255, which no UTF-8 sequence holds.
Utf8Valid(s) == \A i \in 1..Len(s) : s[i] < 128

\* Decimal digits without their leading zeros.
StripZeros(d) ==
    IF \A i \in 1..Len(d) : d[i] = 48
    THEN <<48>>
    ELSE SubSeq(d, CHOOSE i \in 1..Len(d) : d[i] # 48 /\ \A j \in 1..(i - 1) : d[j] = 48,
                Len(d))

\* a <= b for two numbers given as digits without leading zeros.
DigitsLeq(a, b) ==
    \/ Len(a) < Len(b)
    \/ /\ Len(a) = Len(b)
       /\ \/ a = b
          \/ \E i \in 1..Len(a) : a[i] < b[i] /\ \A j \in 1..(i - 1) : a[j] = b[j]

\* u32::MAX and u64::MAX as digits.
U32_MAX == <<52, 50, 57, 52, 57, 54, 55, 50, 57, 53>>
U64_MAX == <<49, 56, 52, 52, 54, 55, 52, 52, 48, 55, 51, 55, 48, 57, 53, 53, 49, 54, 49, 53>>

\* str::parse::<u32>() and ::<u64>(): an optional '+', then at least one digit and
\* only digits, and a value up to max. The value is held as its digits: an u64 does
\* not fit the integers of the checker.
parse_unsigned(s, max) ==
    LET body == IF Len(s) > 0 /\ s[1] = 43 THEN Tail(s) ELSE s
    IN  IF Len(body) = 0 \/ \E i \in 1..Len(body) : body[i] \notin 48..57
        THEN [ok |-> FALSE, digits |-> <<>>]
        ELSE IF DigitsLeq(StripZeros(body), max)
        THEN [ok |-> TRUE, digits |-> StripZeros(body)]
        ELSE [ok |-> FALSE, digits |-> <<>>]

\* The number some digits stand for (up to nine digits).
RECURSIVE DigitsValue(_)
DigitsValue(d) ==
    IF Len(d) = 0 THEN 0 ELSE 10 * DigitsValue(SubSeq(d, 1, Len(d) - 1)) + (d[Len(d)] - 48)

\* What an operation returns: kind is the variant ("panic" when it does not return),
\* value its payload, rest the bytes it leaves unread on the connection.
Outcome(kind, value, rest) == [kind |-> kind, value |-> value, rest |-> rest]

\* A get that leaves the CR LF at the end of the value it read.
get_reply_keeps_terminator(input) ==
    LET r == read_until(input)
        header == IF ends_with(r.line, CR_LF)
                  THEN SubSeq(r.line, 1, Len(r.line) - 2)
                  ELSE r.line
        tok == split(header)
        flags == parse_unsigned(tok[3], U32_MAX)
        size == parse_unsigned(tok[4], U32_MAX)
        n == DigitsValue(size.digits) + 2
        value_buf == SubSeq(r.rest, 1, n)
        after == SubSeq(r.rest, n + 1, Len(r.rest))
    IN  IF r.line = RESULT_END THEN Outcome("Ok", NoValue, r.rest)
        ELSE IF Len(tok) < 2 THEN Outcome("panic", NoValue, r.rest)
        ELSE IF ~Utf8Valid(tok[2]) THEN Outcome("CorruptResponse", NoValue, r.rest)
        ELSE IF Len(tok) < 3 THEN Outcome("panic", NoValue, r.rest)
        ELSE IF ~Utf8Valid(tok[3]) THEN Outcome("CorruptResponse", NoValue, r.rest)
        ELSE IF ~flags.ok THEN Outcome("CorruptResponse", NoValue, r.rest)
        ELSE IF Len(tok) < 4 THEN Outcome("panic", NoValue, r.rest)
        ELSE IF ~Utf8Valid(tok[4]) THEN Outcome("CorruptResponse", NoValue, r.rest)
        ELSE IF ~size.ok THEN Outcome("CorruptResponse", NoValue, r.rest)
        ELSE IF Len(size.digits) > 9 \/ Len(r.rest) < n
        THEN Outcome("CorruptResponse", NoValue, <<>>)
        ELSE IF ~ends_with(value_buf, CR_LF)
        THEN Outcome("CorruptResponse", NoValue, after)
        ELSE Outcome("Ok",
                     [some |-> TRUE, key |-> tok[2],
                      value |-> value_buf,
                      flags |-> flags.digits, num |-> <<>>, msg |-> <<>>],
                     read_until(after).rest)

\* A get that returns the item without reading the END line behind the value.
get_reply_leaves_end(input) ==
    LET r == read_until(input)
        header == IF ends_with(r.line, CR_LF)
                  THEN SubSeq(r.line, 1, Len(r.line) - 2)
                  ELSE r.line
        tok == split(header)
        flags == parse_unsigned(tok[3], U32_MAX)
        size == parse_unsigned(tok[4], U32_MAX)
        n == DigitsValue(size.digits) + 2
        value_buf == SubSeq(r.rest, 1, n)
        after == SubSeq(r.rest, n + 1, Len(r.rest))
    IN  IF r.line = RESULT_END THEN Outcome("Ok", NoValue, r.rest)
        ELSE IF Len(tok) < 2 THEN Outcome("panic", NoValue, r.rest)
        ELSE IF ~Utf8Valid(tok[2]) THEN Outcome("CorruptResponse", NoValue, r.rest)
        ELSE IF Len(tok) < 3 THEN Outcome("panic", NoValue, r.rest)
        ELSE IF ~Utf8Valid(tok[3]) THEN Outcome("CorruptResponse", NoValue, r.rest)
        ELSE IF ~flags.ok THEN Outcome("CorruptResponse", NoValue, r.rest)
        ELSE IF Len(tok) < 4 THEN Outcome("panic", NoValue, r.rest)
        ELSE IF ~Utf8Valid(tok[4]) THEN Outcome("CorruptResponse", NoValue, r.rest)
        ELSE IF ~size.ok THEN Outcome("CorruptResponse", NoValue, r.rest)
        ELSE IF Len(size.digits) > 9 \/ Len(r.rest) < n
        THEN Outcome("CorruptResponse", NoValue, <<>>)
        ELSE IF ~ends_with(value_buf, CR_LF)
        THEN Outcome("CorruptResponse", NoValue, after)
        ELSE Outcome("Ok",
                     [some |-> TRUE, key |-> tok[2],
                      value |-> SubSeq(value_buf, 1, n - 2),
                      flags |-> flags.digits, num |-> <<>>, msg |-> <<>>],
                     after)

\* get, after its flush (lib.rs:149-209): the header line, the value and the END line.
\* unwrap() on a token the header does not hold panics. A read_exact that meets the end
\* of the stream has consumed what there was.
get_reply(input) ==
    LET r == read_until(input)
        header == IF ends_with(r.line, CR_LF)
                  THEN SubSeq(r.line, 1, Len(r.line) - 2)
                  ELSE r.line
        tok == split(header)
        flags == parse_unsigned(tok[3], U32_MAX)
        size == parse_unsigned(tok[4], U32_MAX)
        n == DigitsValue(size.digits) + 2
        value_buf == SubSeq(r.rest, 1, n)
        after == SubSeq(r.rest, n + 1, Len(r.rest))
    IN  IF r.line = RESULT_END THEN Outcome("Ok", NoValue, r.rest)
        ELSE IF Len(tok) < 2 THEN Outcome("panic", NoValue, r.rest)
        ELSE IF ~Utf8Valid(tok[2]) THEN Outcome("CorruptResponse", NoValue, r.rest)
        ELSE IF Len(tok) < 3 THEN Outcome("panic", NoValue, r.rest)
        ELSE IF ~Utf8Valid(tok[3]) THEN Outcome("CorruptResponse", NoValue, r.rest)
        ELSE IF ~flags.ok THEN Outcome("CorruptResponse", NoValue, r.rest)
        ELSE IF Len(tok) < 4 THEN Outcome("panic", NoValue, r.rest)
        ELSE IF ~Utf8Valid(tok[4]) THEN Outcome("CorruptResponse", NoValue, r.rest)
        ELSE IF ~size.ok THEN Outcome("CorruptResponse", NoValue, r.rest)
        ELSE IF Len(size.digits) > 9 \/ Len(r.rest) < n
        THEN Outcome("CorruptResponse", NoValue, <<>>)
        ELSE IF ~ends_with(value_buf, CR_LF)
        THEN Outcome("CorruptResponse", NoValue, after)
        ELSE Outcome("Ok",
                     [some |-> TRUE, key |-> tok[2],
                      value |-> SubSeq(value_buf, 1, n - 2),
                      flags |-> flags.digits, num |-> <<>>, msg |-> <<>>],
                     read_until(after).rest)

\* populate_one, after its flush (lib.rs:300-312): one line, matched whole.
populate_one_reply(input) ==
    LET r == read_until(input)
    IN  IF r.line = RESULT_STORED THEN Outcome("Ok", NoValue, r.rest)
        ELSE IF r.line = RESULT_NOT_STORED THEN Outcome("NotStored", NoValue, r.rest)
        ELSE IF r.line = RESULT_EXISTS THEN Outcome("CASConflict", NoValue, r.rest)
        ELSE IF r.line = RESULT_NOT_FOUND THEN Outcome("CacheMiss", NoValue, r.rest)
        ELSE Outcome("CorruptResponse", NoValue, r.rest)

\* write_expectf, after write_read_line returned a line (lib.rs:350-360).
write_expectf_reply(expect, input) ==
    LET r == read_until(input)
    IN  IF r.line = expect THEN Outcome("Ok", NoValue, r.rest)
        ELSE IF r.line = RESULT_OK THEN Outcome("Ok", NoValue, r.rest)
        ELSE IF r.line = RESULT_NOT_STORED THEN Outcome("NotStored", NoValue, r.rest)
        ELSE IF r.line = RESULT_EXISTS THEN Outcome("CASConflict", NoValue, r.rest)
        ELSE IF r.line = RESULT_NOT_FOUND THEN Outcome("CacheMiss", NoValue, r.rest)
        ELSE Outcome("CorruptResponse", NoValue, r.rest)

\* An incr_decr that takes the message of a CLIENT_ERROR line up to its last byte but
\* one, leaving the carriage return in.
incr_decr_reply_keeps_cr(input) ==
    LET r == read_until(input)
        line == r.line
        p == Len(RESULT_CLIENT_ERROR_PREFIX)
        body == SubSeq(line, 1, Len(line) - 2)
        num == parse_unsigned(body, U64_MAX)
    IN  IF line = RESULT_NOT_FOUND THEN Outcome("CacheMiss", NoValue, r.rest)
        ELSE IF starts_with(line, RESULT_CLIENT_ERROR_PREFIX)
        THEN IF Len(line) - 1 < p
             THEN Outcome("panic", NoValue, r.rest)
             ELSE Outcome("Client",
                          [NoValue EXCEPT !.msg = SubSeq(line, p + 1, Len(line) - 1)],
                          r.rest)
        ELSE IF Len(line) < 2 THEN Outcome("panic", NoValue, r.rest)
        ELSE IF ~Utf8Valid(body) THEN Outcome("CorruptResponse", NoValue, r.rest)
        ELSE IF ~num.ok THEN Outcome("CorruptResponse", NoValue, r.rest)
        ELSE Outcome("Ok", [NoValue EXCEPT !.num = num.digits], r.rest)

\* incr_decr, after write_read_line returned a line (lib.rs:324-336). line.len() - 2
\* below zero, or below the start of the slice, panics; a message that is not UTF-8
\* becomes the empty String (unwrap_or_default).
incr_decr_reply(input) ==
    LET r == read_until(input)
        line == r.line
        p == Len(RESULT_CLIENT_ERROR_PREFIX)
        error_msg == SubSeq(line, p + 1, Len(line) - 2)
        body == SubSeq(line, 1, Len(line) - 2)
        num == parse_unsigned(body, U64_MAX)
    IN  IF line = RESULT_NOT_FOUND THEN Outcome("CacheMiss", NoValue, r.rest)
        ELSE IF starts_with(line, RESULT_CLIENT_ERROR_PREFIX)
        THEN IF Len(line) - 2 < p
             THEN Outcome("panic", NoValue, r.rest)
             ELSE Outcome("Client",
                          [NoValue EXCEPT !.msg = IF Utf8Valid(error_msg)
                                                  THEN error_msg ELSE <<>>],
                          r.rest)
        ELSE IF Len(line) < 2 THEN Outcome("panic", NoValue, r.rest)
        ELSE IF ~Utf8Valid(body) THEN Outcome("CorruptResponse", NoValue, r.rest)
        ELSE IF ~num.ok THEN Outcome("CorruptResponse", NoValue, r.rest)
        ELSE Outcome("Ok", [NoValue EXCEPT !.num = num.digits], r.rest)

\* The reply of an operation, by its verb.
Reply(verb, input) ==
    IF verb = "get" THEN get_reply(input)
    ELSE IF verb \in StorageVerbs THEN populate_one_reply(input)
    ELSE IF verb \in CounterVerbs THEN incr_decr_reply(input)
    ELSE IF verb = "delete" THEN write_expectf_reply(RESULT_DELETED, input)
    ELSE write_expectf_reply(RESULT_OK, input)

\* What the server side of the connection sends for one command before the stream
\* ends or the next command is sent.
Replies ==
    {
     <<>>,
        \* (nothing): the stream ends at once
     <<10>>,
        \* \n: a line of one byte
     <<79, 75, 13, 10>>,
        \* OK\r\n
     <<83, 84, 79, 82, 69, 68, 13, 10>>,
        \* STORED\r\n
     <<78, 79, 84, 95, 83, 84, 79, 82, 69, 68, 13, 10>>,
        \* NOT_STORED\r\n
     <<69, 88, 73, 83, 84, 83, 13, 10>>,
        \* EXISTS\r\n
     <<78, 79, 84, 95, 70, 79, 85, 78, 68, 13, 10>>,
        \* NOT_FOUND\r\n
     <<68, 69, 76, 69, 84, 69, 68, 13, 10>>,
        \* DELETED\r\n
     <<69, 78, 68, 13, 10>>,
        \* END\r\n
     <<69, 82, 82, 79, 82, 13, 10>>,
        \* ERROR\r\n: a line the client does not know
     <<51, 54, 13, 10>>,
        \* 36\r\n: a counter
     <<49, 56, 52, 52, 54, 55, 52, 52, 48, 55, 51, 55, 48, 57, 53, 53, 49, 54, 49, 54, 13, 10>>,
        \* 18446744073709551616\r\n: a counter of 2^64
     <<67, 76, 73, 69, 78, 84, 95, 69, 82, 82, 79, 82, 32, 98, 97, 100, 32, 100, 97, 116, 97, 13, 10>>,
        \* CLIENT_ERROR bad data\r\n
     <<67, 76, 73, 69, 78, 84, 95, 69, 82, 82, 79, 82, 32, 10>>,
        \* CLIENT_ERROR \n: a CLIENT_ERROR line cut short
     <<67, 76, 73, 69, 78, 84, 95, 69, 82, 82, 79, 82, 32, 255, 13, 10>>,
        \* CLIENT_ERROR \xff\r\n: a message that is not UTF-8
     <<86, 65, 76, 85, 69, 32, 97, 32, 51, 50, 32, 51, 13, 10, 114, 101, 100, 13, 10, 69, 78, 68, 13, 10>>,
        \* VALUE a 32 3\r\nred\r\nEND\r\n: a hit
     <<86, 65, 76, 85, 69, 32, 97, 13, 10>>,
        \* VALUE a\r\n: a header without flags and size
     <<86, 65, 76, 85, 69, 32, 97, 32, 120, 32, 51, 13, 10, 114, 101, 100, 13, 10, 69, 78, 68, 13, 10>>,
        \* VALUE a x 3\r\nred\r\nEND\r\n: flags that are no number
     <<86, 65, 76, 85, 69, 32, 97, 32, 51, 50, 13, 10>>,
        \* VALUE a 32\r\n: a header without size
     <<86, 65, 76, 85, 69, 32, 97, 32, 51, 50, 32, 51, 13, 10, 114, 101>>,
        \* VALUE a 32 3\r\nre: a value cut short
     <<86, 65, 76, 85, 69, 32, 97, 32, 51, 50, 32, 51, 13, 10, 114, 101, 100, 100, 121, 13, 10, 69, 78, 68, 13, 10>>,
        \* VALUE a 32 3\r\nreddy\r\nEND\r\n: a value longer than its size
     <<86, 65, 76, 85, 69, 32, 255, 32, 51, 50, 32, 51, 13, 10, 114, 101, 100, 13, 10, 69, 78, 68, 13, 10>>,
        \* VALUE ÿ 32 3\r\nred\r\nEND\r\n: a key that is not UTF-8
     <<66, 79, 71, 85, 83, 32, 97, 32, 51, 50, 32, 51, 13, 10, 114, 101, 100, 13, 10, 69, 78, 68, 13, 10>>
        \* BOGUS a 32 3\r\nred\r\nEND\r\n: a header whose first token is not VALUE
    }

\* An operation is called: the key check where the code has one, then the writes of
\* the command into the connection's writer. A panic ended the program.
OpCall(verb, key, item, delta, write_ok) ==
    /\ op_pc \in {"idle", "done"}
    /\ op_result # "panic"
    /\ ops < MaxOps
    /\ ops' = ops + 1
    /\ op_verb' = verb
    /\ op_key' = IF verb \in KeyedVerbs THEN key ELSE <<>>
    /\ op_item' = IF verb \in StorageVerbs THEN item ELSE NoItem
    /\ op_value' = NoValue
    /\ op_reply' = <<>>
    /\ IF verb \in VerbsCheckingKey /\ ~legal_key(key)
       THEN /\ op_result' = "MalformedKey"
            /\ wire' = <<>>
            /\ op_pc' = "done"
       ELSE IF write_ok
       THEN /\ op_result' = "none"
            /\ wire' = Command(verb, key, item, delta)
            /\ op_pc' = "flush"
       ELSE /\ op_result' = "Io(Write)"
            /\ wire' = <<>>
            /\ op_pc' = "done"
    /\ UNCHANGED <<free_conns, next_conn, closed, poolVars, clientVars, selVars,
                   conn_in, store, stored>>

\* conn.writer.flush(): an error ends the operation with Io(Flush).
OpFlush(ok) ==
    /\ op_pc = "flush"
    /\ op_pc' = IF ok THEN "sent" ELSE "done"
    /\ op_result' = IF ok THEN op_result ELSE "Io(Flush)"
    /\ UNCHANGED <<free_conns, next_conn, closed, poolVars, clientVars, selVars,
                   op_verb, op_key, wire, op_item, op_value, op_reply, conn_in, ops,
                   store, stored>>

\* The first read_until of the operation fails: Io(Read).
OpReadError ==
    /\ op_pc = "sent"
    /\ op_pc' = "done"
    /\ op_result' = "Io(Read)"
    /\ UNCHANGED <<free_conns, next_conn, closed, poolVars, clientVars, selVars,
                   op_verb, op_key, wire, op_item, op_value, op_reply, conn_in, ops,
                   store, stored>>

\* The operation reads and decodes: the connection holds what earlier operations left
\* unread, then what the server sent for this command.
Receive(sent) ==
    /\ op_pc = "sent"
    /\ op_pc' = "done"
    /\ op_reply' = conn_in \o sent
    /\ op_result' = Reply(op_verb, conn_in \o sent).kind
    /\ op_value' = Reply(op_verb, conn_in \o sent).value
    /\ conn_in' = Reply(op_verb, conn_in \o sent).rest
    /\ UNCHANGED <<free_conns, next_conn, closed, poolVars, clientVars, selVars,
                   op_verb, op_key, wire, op_item, ops>>

\* The server side sends any bytes of Replies.
OpReply(sent) ==
    /\ Receive(sent)
    /\ UNCHANGED <<store, stored>>

OpInit == PoolInit

OpNext ==
    \/ \E verb \in OpVerbs, key \in OpKeys, item \in OpItems, delta \in OpDeltas,
          write_ok \in BOOLEAN : OpCall(verb, key, item, delta, write_ok)
    \/ \E ok \in BOOLEAN : OpFlush(ok)
    \/ OpReadError
    \/ \E sent \in Replies : OpReply(sent)

OpSpec == OpInit /\ [][OpNext]_vars

\* ------------------------------------------------- a server that stores
\* The keys of the round trips: keys the protocol allows.
RtKeys == {<<97>>, <<98>>, KeyOfLen(250)}
RtVerbs == {"set", "add", "get", "delete"}

\* f with key k bound to v, and f without key k.
Bind(f, k, v) == [x \in DOMAIN f \cup {k} |-> IF x = k THEN v ELSE f[x]]
Unbind(f, k) == [x \in DOMAIN f \ {k} |-> f[x]]

\* A server of the protocol of spec section 4.4: it reads the command line, splits it at
\* the spaces, and for set and add takes <byte-count> bytes after the line as the
\* value. It keeps value and flags per key and sends them back as it took them.
ServerHandle(entries, command) ==
    LET r == read_until(command)
        tok == split(SubSeq(r.line, 1, Len(r.line) - 2))
        key == tok[2]
        entry == [value |-> SubSeq(r.rest, 1, DigitsValue(tok[5])), flags |-> tok[3]]
    IN  IF tok[1] = VerbBytes("get")
        THEN [entries |-> entries,
              reply |-> IF key \in DOMAIN entries
                        THEN <<86, 65, 76, 85, 69>> \o SP \o key \o SP \o entries[key].flags \o SP
                                \o ToDecimal(Len(entries[key].value)) \o CR_LF
                                \o entries[key].value \o CR_LF \o RESULT_END
                        ELSE RESULT_END]
        ELSE IF tok[1] = VerbBytes("set")
        THEN [entries |-> Bind(entries, key, entry), reply |-> RESULT_STORED]
        ELSE IF tok[1] = VerbBytes("add")
        THEN IF key \in DOMAIN entries
             THEN [entries |-> entries, reply |-> RESULT_NOT_STORED]
             ELSE [entries |-> Bind(entries, key, entry), reply |-> RESULT_STORED]
        ELSE IF key \in DOMAIN entries
        THEN [entries |-> Unbind(entries, key), reply |-> RESULT_DELETED]
        ELSE [entries |-> entries, reply |-> RESULT_NOT_FOUND]

\* The server handles the command and the operation reads the reply. stored follows
\* what the operations told the application: a set or add that returned Ok stored its
\* item, a delete that returned Ok removed it.
ServerReply ==
    /\ Receive(ServerHandle(store, wire).reply)
    /\ store' = ServerHandle(store, wire).entries
    /\ stored' =
          IF op_result' = "Ok" /\ op_verb \in {"set", "add"}
          THEN Bind(stored, op_key,
                    [value |-> op_item.value, flags |-> ToDecimal(op_item.flags)])
          ELSE IF op_result' = "Ok" /\ op_verb = "delete"
          THEN Unbind(stored, op_key)
          ELSE stored

RtInit == PoolInit

RtNext ==
    \/ \E verb \in RtVerbs, key \in RtKeys, item \in OpItems :
          OpCall(verb, key, item, 0, TRUE)
    \/ OpFlush(TRUE)
    \/ ServerReply

RtSpec == RtInit /\ [][RtNext]_vars

\* A malformed key: longer than 250 bytes, or holding a whitespace or control byte.
MalformedKey(key) ==
    \/ Len(key) > 250
    \/ \E i \in 1..Len(key) : key[i] <= 32 \/ key[i] = 127

\* C10: an operation called with a malformed key has returned the malformed-key error
\* and has written no byte to the connection.
C10_MalformedKeyRejectedBeforeIO ==
    (op_pc # "idle" /\ MalformedKey(op_key))
       => /\ op_pc = "done"
          /\ op_result = "MalformedKey"
          /\ wire = <<>>

\* The operation has read a reply and decoded it (or panicked while it did).
Decoded ==
    /\ op_pc = "done"
    /\ op_result \notin {"none", "MalformedKey", "Io(Write)", "Io(Flush)", "Io(Read)"}

\* The line the operation read first.
FirstLine == read_until(op_reply).line

\* C11: decoding is total: whatever the connection held, the operation has returned
\* success, cache-miss, not-stored, CAS-conflict, client-error or corrupt-response; it
\* has not crashed.
C11_DecodingTotal ==
    Decoded => op_result \in {"Ok", "CacheMiss", "NotStored", "CASConflict", "Client",
                              "CorruptResponse"}

\* A line that is a decimal counter.
CounterLine(line) ==
    /\ ends_with(line, CR_LF)
    /\ Len(line) > 2
    /\ \A i \in 1..(Len(line) - 2) : line[i] \in 48..57

\* VALUE, the first token of a get header.
VALUE == <<86, 65, 76, 85, 69>>

\* C12: an operation reports success only for a line it knows: get gives an item only
\* for a header whose first token is VALUE and no item only for END, a storage verb
\* succeeds only on STORED, delete and flush_all only on DELETED or OK, incr and decr
\* only on a decimal counter.
C12_SuccessOnlyForKnownLine ==
    (Decoded /\ op_result = "Ok")
       => IF op_verb = "get"
          THEN IF op_value.some
               THEN split(FirstLine)[1] = VALUE
               ELSE FirstLine = RESULT_END
          ELSE IF op_verb \in StorageVerbs THEN FirstLine = RESULT_STORED
          ELSE IF op_verb \in CounterVerbs THEN CounterLine(FirstLine)
          ELSE FirstLine \in {RESULT_DELETED, RESULT_OK}

\* The message of a CLIENT_ERROR line: what stands between the prefix and the CR LF.
ClientErrorMessage(line) ==
    SubSeq(line, Len(RESULT_CLIENT_ERROR_PREFIX) + 1, Len(line) - 2)

\* C13: when incr or decr read a line CLIENT_ERROR <message> CR LF whose message is
\* text, the operation returned the client-error carrying exactly <message>.
C13_ClientErrorCarriesMessage ==
    (/\ Decoded
     /\ op_verb \in CounterVerbs
     /\ starts_with(FirstLine, RESULT_CLIENT_ERROR_PREFIX)
     /\ ends_with(FirstLine, CR_LF)
     /\ Utf8Valid(FirstLine))
       => /\ op_result = "Client"
          /\ op_value.msg = ClientErrorMessage(FirstLine)

C13_Witness ==
    /\ Decoded
    /\ op_verb = "decr"
    /\ FirstLine = <<67, 76, 73, 69, 78, 84, 95, 69, 82, 82, 79, 82, 32, 98, 97, 100, 32, 100, 97, 116, 97, 13, 10>>
    /\ op_result = "Client"
    /\ op_value.msg = <<98, 97, 100, 32, 100, 97, 116, 97>>

\* C14: delete has succeeded only on the line DELETED and flush_all only on the line
\* OK; delete on NOT_FOUND has returned cache-miss.
C14_DeleteNeedsDeleted ==
    Decoded =>
       /\ (op_verb = "delete" /\ op_result = "Ok") => FirstLine = RESULT_DELETED
       /\ (op_verb = "flush_all" /\ op_result = "Ok") => FirstLine = RESULT_OK
       /\ (op_verb = "delete" /\ FirstLine = RESULT_NOT_FOUND) => op_result = "CacheMiss"

\* C15: against a server that stores what it is sent, a get of a key that a set or add
\* stored returns an item with the value and the flags stored, and a get of a key that
\* is not stored returns no item and no error.
C15_RoundTrip ==
    (op_pc = "done" /\ op_verb = "get")
       => IF op_key \in DOMAIN stored
          THEN /\ op_result = "Ok"
               /\ op_value.some
               /\ op_value.value = stored[op_key].value
               /\ op_value.flags = stored[op_key].flags
          ELSE /\ op_result = "Ok"
               /\ ~op_value.some

C15_Witness ==
    /\ op_pc = "done"
    /\ op_verb = "get"
    /\ op_key \in DOMAIN stored
    /\ op_result = "Ok"
    /\ op_value.value = <<114, 101, 100>>
    /\ op_value.flags = <<51, 50>>

\* C16: every client that exists has a server list that is not empty (and so no ping
\* returns Ok without a server contacted).
C16_ServerListNonEmpty ==
    pc \notin {"start", "noclient"} => Len(selector_addrs) > 0

\* C17: a pick on an empty server list has returned the no-servers error and no
\* address.
C17_EmptyPickIsNoServers ==
    (picks > 0 /\ Len(sel_addrs) = 0)
       => /\ pick_result.kind = "err"
          /\ pick_result.err = "NoServers"
          /\ pick_result.addr = NoAddr

\* C18: a get_conn whose dial failed has returned a connectivity error (the Io or the
\* connect variant), not the no-servers error.
C18_DialFailureIsConnectivity ==
    (pool_res.op = "get_conn" /\ ~pool_res.ok)
       => pool_res.err \in {"Io", "TcpConnectError"}

\* The entries of the list on which f fails.
EachFailures == {i \in 1..Len(each_res.addrs) : each_res.f[each_res.addrs[i]] # "Ok"}

\* C19: each has called f on the entries of the list in order, once per entry, up to
\* and including the first entry on which f fails, and has returned the error of that
\* entry; when f fails on no entry, f was called on every entry and each returned Ok.
C19_EachFailFast ==
    each_res.called
       => IF EachFailures = {}
          THEN /\ each_res.calls = each_res.addrs
               /\ each_res.result = "Ok"
          ELSE LET k == CHOOSE i \in EachFailures : \A j \in EachFailures : i <= j
               IN  /\ each_res.calls = SubSeq(each_res.addrs, 1, k)
                   /\ each_res.result = each_res.f[each_res.addrs[k]]

C19_Witness ==
    /\ each_res.called
    /\ Len(each_res.addrs) = 3
    /\ Len(each_res.calls) = 2
    /\ each_res.result = "ErrB"

\* The idle connections of an address string, none when the map has no entry for it.
FreeListOf(fc, s) == IF s \in DOMAIN fc THEN fc[s] ELSE <<>>

\* C20: a get_conn dials if and only if the free list of its address is empty; when
\* the list is not empty, the call takes the last connection off that list, which gets
\* one shorter, hands it to the caller and dials nothing; the free lists of the other
\* addresses stay as they were in both cases.
C20_AcquirePopsOrDials ==
    [][pool_res'.op = "get_conn"
         => LET s == to_string(pool_res'.addr)
                list == FreeListOf(free_conns, s)
            IN  /\ pool_res'.dialed <=> (list = <<>>)
                /\ list # <<>>
                     => /\ pool_res'.ok
                        /\ next_conn' = next_conn
                        /\ free_conns'[s] = SubSeq(list, 1, Len(list) - 1)
                        /\ \E caller \in Callers :
                              held' = [held EXCEPT ![caller] = @ \cup {list[Len(list)]}]
                /\ list = <<>> => FreeListOf(free_conns', s) = <<>>
                /\ \A a \in SocketAddrs :
                      to_string(a) # s
                         => FreeListOf(free_conns', to_string(a))
                              = FreeListOf(free_conns, to_string(a))
      ]_vars

\* C20 witness: a get_conn took a connection off a free list while the other address
\* had idle connections too.
C20_Witness ==
    /\ pool_res.op = "get_conn"
    /\ pool_res.ok
    /\ ~pool_res.dialed
    /\ \E a \in SocketAddrs :
          a # pool_res.addr /\ FreeListOf(free_conns, to_string(a)) # <<>>

\* C21: after a get that returned an item, the connection is at a line boundary with
\* nothing of the response left: get has read the header line, the value and its CR LF
\* (value size + 2 bytes) and the END line, and no byte stays unread for the next
\* command; a get that returned a miss has read its END line and leaves nothing either.
C21_CleanBoundaryAfterGet ==
    (op_pc = "done" /\ op_verb = "get" /\ op_result = "Ok")
       => /\ conn_in = <<>>
          /\ op_value.some
               => LET header == read_until(op_reply)
                      n == Len(op_value.value) + 2
                      last == read_until(SubSeq(header.rest, n + 1, Len(header.rest)))
                  IN  /\ SubSeq(header.rest, 1, n) = op_value.value \o CR_LF
                      /\ last.line = RESULT_END
                      /\ last.rest = <<>>

C21_Witness ==
    /\ op_pc = "done"
    /\ op_verb = "get"
    /\ op_result = "Ok"
    /\ op_value.some
    /\ ends_with(op_reply, RESULT_END)
    /\ Len(op_reply) > Len(RESULT_END)
    /\ conn_in = <<>>

\* C22: an internal_ping that returned Ok has read a line that ends with the line
\* feed: write_read_line does not return a partial or empty line as a success.
C22_SuccessIsWholeLine ==
    ip_result = "Ok" => (Len(read_buf) > 0 /\ read_buf[Len(read_buf)] = "\n")

\* C23: a set_servers that returns an error leaves the server list as it was before
\* the call.
C23_SetServersAtomic ==
    [][~set_result'.ok => sel_addrs' = sel_addrs]_vars

\* C24: pick_server never crashes: every pick has returned an error or an address of
\* the list.
C24_PickNeverCrashes ==
    picks > 0
       => \/ pick_result.kind = "err"
          \/ /\ pick_result.kind = "ok"
             /\ \E i \in 1..Len(sel_addrs) : sel_addrs[i] = pick_result.addr
====
